---- MODULE Spec2Model ----
(***************************************************************************)
(* Dropify chat bot (src/bot.js): the message dispatcher, the command      *)
(* handlers, the cooldown / claim ledger and the channel sync, as a state  *)
(* machine.  Every await of the JavaScript code that waits for I/O is a    *)
(* point where another event handler may run, so every handler is cut into *)
(* one action per such await.  Promise continuations (microtasks) run to   *)
(* the next I/O await without interleaving.                                *)
(***************************************************************************)
EXTENDS Integers, Sequences, FiniteSets, TLC

VARIABLES now, cooldowns, claimedDiscounts, lastGlobalDropAt, joinedChannels,
          ownerName, inv, sync, ticks,
          hist,   \* history: what was issued, committed and recorded, and when
          flow,   \* the issuance flows against the commerce API
          conn,   \* the connection: its handlers, autoJoinInterval, the timers
          discountApi  \* which definition of requestViewerDiscount is loaded

vars == <<now, cooldowns, claimedDiscounts, lastGlobalDropAt, joinedChannels,
          ownerName, inv, sync, ticks, hist, flow, conn, discountApi>>

----------------------------------------------------------------------------
(* Bounds of the model *)

\* number of chat lines handled in one behaviour
MaxInv == 2
\* number of times the clock advances in one behaviour
MaxTicks == 1
\* Date.now() when the process starts, in ms (later than 5 minutes after 0)
StartTime == 1000000

\* the clock advances by one of these amounts (ms)
Deltas == {999, 300000}

\* number of times the clock advances in a behaviour of the ledger alone
MaxLedgerTicks == 2

\* number of issuance flows started in one behaviour
MaxFlows == 2

\* number of connected events in one behaviour
MaxConnects == 3

----------------------------------------------------------------------------
(* Program constants *)

GLOBAL_DROP_COOLDOWN_MS == 5 * 60 * 1000
DEFAULT_COOLDOWN_MS == 10 * 1000
DISCOUNT_LIFETIME_MS == 10 * 60 * 1000
COMMAND_PREFIX == <<"!">>

\* COMMAND_COOLDOWNS[name] || DEFAULT_COOLDOWN_MS
COMMAND_COOLDOWNS == [ping |-> 1000, help |-> 2000, discount |-> 30 * 1000,
                      drop |-> GLOBAL_DROP_COOLDOWN_MS]

CustomCd(name) ==
    IF name \in DOMAIN COMMAND_COOLDOWNS THEN COMMAND_COOLDOWNS[name]
    ELSE DEFAULT_COOLDOWN_MS

----------------------------------------------------------------------------
(* Strings are sequences of one-character strings. *)

Upper == <<"A","B","C","D","E","F","G","H","I","J","K","L","M",
           "N","O","P","Q","R","S","T","U","V","W","X","Y","Z">>
Lower == <<"a","b","c","d","e","f","g","h","i","j","k","l","m",
           "n","o","p","q","r","s","t","u","v","w","x","y","z">>
Digits == <<"0","1","2","3","4","5","6","7","8","9">>

ToLowerChar(c) ==
    IF \E k \in 1..26 : Upper[k] = c
    THEN Lower[CHOOSE k \in 1..26 : Upper[k] = c]
    ELSE c

\* String.prototype.toLowerCase
ToLowerCase(s) == [k \in 1..Len(s) |-> ToLowerChar(s[k])]

ToUpperChar(c) ==
    IF \E k \in 1..26 : Lower[k] = c
    THEN Upper[CHOOSE k \in 1..26 : Lower[k] = c]
    ELSE c

\* String.prototype.toUpperCase
ToUpperCase(s) == [k \in 1..Len(s) |-> ToUpperChar(s[k])]

\* String.prototype.startsWith
StartsWith(s, p) == Len(s) >= Len(p) /\ SubSeq(s, 1, Len(p)) = p

\* String.prototype.slice(n)
Slice(s, n) == SubSeq(s, n + 1, Len(s))

IsSpace(c) == c = " "

RECURSIVE TrimStart(_)
TrimStart(s) ==
    IF s # <<>> /\ IsSpace(Head(s)) THEN TrimStart(Tail(s)) ELSE s

RECURSIVE TrimEnd(_)
TrimEnd(s) ==
    IF s # <<>> /\ IsSpace(s[Len(s)]) THEN TrimEnd(SubSeq(s, 1, Len(s) - 1))
    ELSE s

\* String.prototype.trim
Trim(s) == TrimEnd(TrimStart(s))

\* s.split(/\s+/): cur is the token being read, acc the tokens read so far.
\* A separator at the start or the end of s yields an empty token, as in JS.
RECURSIVE SplitFrom(_, _, _)
SplitFrom(s, cur, acc) ==
    IF s = <<>> THEN Append(acc, cur)
    ELSE IF IsSpace(Head(s))
         THEN SplitFrom(TrimStart(s), <<>>, Append(acc, cur))
         ELSE SplitFrom(Tail(s), Append(cur, Head(s)), acc)

SplitWs(s) == SplitFrom(s, <<>>, <<>>)

IsDigit(c) == \E k \in 1..10 : Digits[k] = c
DigitVal(c) == (CHOOSE k \in 1..10 : Digits[k] = c) - 1

RECURSIVE DigitPrefix(_)
DigitPrefix(s) ==
    IF s # <<>> /\ IsDigit(Head(s)) THEN <<Head(s)>> \o DigitPrefix(Tail(s))
    ELSE <<>>

RECURSIVE DecValue(_)
DecValue(d) ==
    IF d = <<>> THEN 0 ELSE 10 * DecValue(SubSeq(d, 1, Len(d) - 1)) + DigitVal(d[Len(d)])

\* a JS number that may be NaN
NaN == [nan |-> TRUE, val |-> 0]
Num(n) == [nan |-> FALSE, val |-> n]

\* parseInt(x, 10) of a string x: leading white space is skipped, one sign
\* is read, then the longest run of decimal digits; what follows the digits
\* is ignored; no digit at all gives NaN.
ParseInt(x) ==
    LET t == TrimStart(x)
        neg == t # <<>> /\ Head(t) = "-"
        u == IF t # <<>> /\ Head(t) \in {"-", "+"} THEN Tail(t) ELSE t
        d == DigitPrefix(u)
    IN IF d = <<>> THEN NaN
       ELSE IF neg THEN Num(0 - DecValue(d)) ELSE Num(DecValue(d))

\* parseInt(args[0], 10): args[0] is undefined when there is no argument
ParseIntArg0(args) == IF args = <<>> THEN NaN ELSE ParseInt(args[1])

\* isNaN(percent) || percent < 1 || percent > 50
IsNaNOrOut(percent) == percent.nan \/ percent.val < 1 \/ percent.val > 50

\* Math.ceil(a / b) for b > 0
CeilDiv(a, b) == IF a >= 0 THEN (a + b - 1) \div b ELSE 0 - ((0 - a) \div b)

----------------------------------------------------------------------------
(* The command registry *)

W_ping == <<"p","i","n","g">>
W_help == <<"h","e","l","p">>
W_discount == <<"d","i","s","c","o","u","n","t">>
W_drop == <<"d","r","o","p">>
W_reload == <<"r","e","l","o","a","d">>
W_constructor == <<"c","o","n","s","t","r","u","c","t","o","r">>
W_foo == <<"f","o","o">>

\* own keys of the COMMANDS object literal
CommandKey == [ping |-> W_ping, help |-> W_help, discount |-> W_discount,
               drop |-> W_drop, reload |-> W_reload]
CommandNames == DOMAIN CommandKey

\* keys COMMANDS inherits from Object.prototype that a lower-cased token can
\* equal; their values are truthy and have no execute function
InheritedKeys == {W_constructor, <<"_","_","p","r","o","t","o","_","_">>}

NoCommand == "none"
Inherited == "inherited"

\* COMMANDS[commandName]: the command's name, Inherited for an inherited
\* property, NoCommand when the lookup gives undefined
Lookup(commandName) ==
    IF \E c \in CommandNames : CommandKey[c] = commandName
    THEN CHOOSE c \in CommandNames : CommandKey[c] = commandName
    ELSE IF commandName \in InheritedKeys THEN Inherited
    ELSE NoCommand

----------------------------------------------------------------------------
(* Users, channels and chat lines *)

Users == {"alice", "bob"}
Channels == {"#alice", "#bob"}

\* Twitch puts the broadcaster badge on the lines of the channel's owner
Broadcaster(channel, user) ==
    \/ channel = "#alice" /\ user = "alice"
    \/ channel = "#bob" /\ user = "bob"

\* who writes in which channel: a viewer of bob's channel, and the two
\* broadcasters each in their own channel
Chatters == {<<"#bob", "alice">>, <<"#bob", "bob">>, <<"#alice", "alice">>}

\* tags of a chat line of user in channel
Tags(channel, user) ==
    [username |-> user, userId |-> user,
     badges |-> [broadcaster |-> IF Broadcaster(channel, user) THEN "1" ELSE "0"]]

Sp == <<" ">>
Bang == <<"!">>

Messages ==
    { W_ping,                          \* no prefix
      Sp \o Bang \o W_ping,            \* prefix not at the start
      Bang,                            \* nothing after the prefix
      Bang \o Sp \o Sp,                \* only white space after the prefix
      Bang \o W_foo,
      Bang \o W_constructor,
      Bang \o W_ping,
      Bang \o <<"P","i","n","g">>,
      Bang \o Sp \o W_ping \o Sp,
      Bang \o W_help,
      Bang \o W_discount,
      Bang \o W_reload,
      Bang \o W_drop,
      Bang \o W_drop \o Sp \o <<"a","b","c">>,
      Bang \o W_drop \o Sp \o <<"0">>,
      Bang \o W_drop \o Sp \o <<"1">>,
      Bang \o W_drop \o Sp \o Sp \o <<"5","0">>,
      Bang \o W_drop \o Sp \o <<"5","1">>,
      Bang \o W_drop \o Sp \o <<"1","0","%">>,
      Bang \o W_drop \o Sp \o <<"-","5">> }

----------------------------------------------------------------------------
(* The ledger *)

\* an isOnCooldown that rounds the remaining seconds down
IsOnCooldown_Floor(cds, command, userId, t) ==
    LET expiresAt == cds[command][userId]
    IN IF t < expiresAt THEN (expiresAt - t) \div 1000 ELSE 0

\* isOnCooldown(command, userId) at time t: a missing entry reads as 0
IsOnCooldown(cds, command, userId, t) ==
    LET expiresAt == cds[command][userId]
    IN IF t < expiresAt THEN CeilDiv(expiresAt - t, 1000) ELSE 0

\* a setCooldown that adds the duration to an entry that has not run out
SetCooldown_Stacking(cds, command, userId, ms, t) ==
    [cds EXCEPT ![command][userId] =
        (IF cds[command][userId] > t THEN cds[command][userId] ELSE t) + ms]

\* setCooldown(command, userId, ms) at time t
SetCooldown(cds, command, userId, ms, t) ==
    [cds EXCEPT ![command][userId] = t + ms]

NoClaim == [code |-> "", createdAt |-> 0]

\* a getUserDiscount that drops the claim at the end of its lifetime
GetUserDiscount_ExpiresEarly(cl, channel, userId, t) ==
    LET entry == cl[channel][userId]
    IN IF entry = NoClaim THEN NoClaim
       ELSE IF t - entry.createdAt >= DISCOUNT_LIFETIME_MS THEN NoClaim
       ELSE entry

\* getUserDiscount(channel, userId) at time t; NoClaim stands for null
GetUserDiscount(cl, channel, userId, t) ==
    LET entry == cl[channel][userId]
    IN IF entry = NoClaim THEN NoClaim
       ELSE IF t - entry.createdAt > DISCOUNT_LIFETIME_MS THEN NoClaim
       ELSE entry

\* setUserDiscount(channel, userId, code) at time t
SetUserDiscount(cl, channel, userId, code, t) ==
    [cl EXCEPT ![channel][userId] = [code |-> code, createdAt |-> t]]

----------------------------------------------------------------------------
(* What a chat line is, in the words of the specification.  These read the *)
(* text of the line only; the dispatcher below does not use them.          *)

RECURSIVE DropSpaces(_)
DropSpaces(s) ==
    IF s = <<>> THEN <<>>
    ELSE IF Head(s) = " " THEN DropSpaces(Tail(s))
    ELSE <<Head(s)>> \o DropSpaces(Tail(s))

\* the text up to the first space
RECURSIVE FirstWord(_)
FirstWord(s) ==
    IF s = <<>> \/ Head(s) = " " THEN <<>> ELSE <<Head(s)>> \o FirstWord(Tail(s))

RECURSIVE AfterWord(_)
AfterWord(s) ==
    IF s = <<>> \/ Head(s) = " " THEN s ELSE AfterWord(Tail(s))

RECURSIVE SkipSpaces(_)
SkipSpaces(s) ==
    IF s # <<>> /\ Head(s) = " " THEN SkipSpaces(Tail(s)) ELSE s

RegisteredCommands == {W_ping, W_help, W_discount, W_drop, W_reload}

\* the first token of the line after the prefix, case-folded
FirstToken(message) == ToLowerCase(FirstWord(SkipSpaces(Tail(message))))

\* "self": the bot's own line; "noprefix": the line does not start with the
\* prefix; "empty": nothing but white space follows the prefix;
\* "unregistered": the first token is no registered command; "registered"
LineClass(self, message) ==
    IF self THEN "self"
    ELSE IF message = <<>> \/ Head(message) # "!" THEN "noprefix"
    ELSE IF DropSpaces(Tail(message)) = <<>> THEN "empty"
    ELSE IF FirstToken(message) \notin RegisteredCommands THEN "unregistered"
    ELSE "registered"

\* the second token of the line, <<>> when there is none
SecondToken(message) ==
    FirstWord(SkipSpaces(AfterWord(SkipSpaces(Tail(message)))))

AllDigits(s) == s # <<>> /\ \A k \in 1..Len(s) : IsDigit(s[k])

\* the percent argument of a line: "missing", "nonnumeric" (not an optional
\* sign and decimal digits), "low" (< 1), "high" (> 50) or "inrange"
ArgClass(message) ==
    LET a == SecondToken(message)
        body == IF a # <<>> /\ Head(a) \in {"-", "+"} THEN Tail(a) ELSE a
    IN IF a = <<>> THEN "missing"
       ELSE IF ~AllDigits(body) THEN "nonnumeric"
       ELSE IF Head(a) = "-" \/ DecValue(body) < 1 THEN "low"
       ELSE IF DecValue(body) > 50 THEN "high"
       ELSE "inrange"

----------------------------------------------------------------------------
(* One handling of a chat line (client.on("message")) *)

Inv == 1..MaxInv

Reply(kind, n) == [kind |-> kind, n |-> n]
NoReply == Reply("", 0)

IdleInv ==
    [pc |-> "idle", channel |-> "", user |-> "", line |-> "", arg |-> "",
     cmd |-> NoCommand, percent |-> NaN, onCooldown |-> FALSE,
     at |-> 0, recent |-> FALSE, got |-> "",
     pending |-> NoReply, cont |-> "", branch |-> "", replies |-> <<>>,
     runs |-> 0, ext |-> 0, extPercent |-> NaN, syncRuns |-> 0,
     raised |-> FALSE, escaped |-> FALSE, wrote |-> {},
     gated |-> FALSE, blocked |-> FALSE,
     outcome |-> "", reason |-> ""]

\* client.say(channel, text) was called and is awaited; cont says what runs
\* when it resolves and who sees its rejection:
\*   "end"     the dispatcher's own reply (wait time, generic failure)
\*   "return"  the handler's last reply: the handler returns when it resolves
\*   "request", "callBackend", "sync"  the handler's progress reply
Say(r, kind, n, cont) ==
    [r EXCEPT !.pc = "say", !.pending = Reply(kind, n), !.cont = cont,
              !.branch = IF cont = "end" THEN r.branch ELSE kind]

\* the catch block of the dispatcher: the generic failure reply
DispatchCatch(r) ==
    Say([r EXCEPT !.raised = TRUE], "failed", 0, "end")

\* COMMANDS.ping.execute
PingExecute(r) == Say(r, "pong", 0, "return")

\* COMMANDS.help.execute
HelpExecute(r) == Say(r, "help", 0, "return")

\* a discount handler without its cooldown check
DiscountExecute_NoCooldownCheck(r0, cds, t) ==
    Say([r0 EXCEPT !.at = t], "generating", 0, "request")

\* COMMANDS.discount.execute up to its first await
\* (at records when the handler was entered)
DiscountExecute(r0, cds, t) ==
    LET r == [r0 EXCEPT !.at = t]
        cd == IsOnCooldown(cds, "discount", Tags(r.channel, r.user).userId, t)
    IN IF cd > 0 THEN Say(r, "discount_wait", cd, "return")
       ELSE Say(r, "generating", 0, "request")

\* a drop handler without its streamer check
DropExecute_NoStreamerCheck(r, args, last, t) ==
    LET sinceLast == t - last
        percent == ParseIntArg0(args)
    IN IF sinceLast < GLOBAL_DROP_COOLDOWN_MS
       THEN Say(r, "drop_cooldown",
                CeilDiv(GLOBAL_DROP_COOLDOWN_MS - sinceLast, 1000), "return")
       ELSE IF IsNaNOrOut(percent)
       THEN Say([r EXCEPT !.percent = percent], "usage", 0, "return")
       ELSE Say([r EXCEPT !.percent = percent], "creating", percent.val,
                "callBackend")

\* a drop handler without the global gate
DropExecute_NoGlobalGate(r, args, last, t) ==
    LET isStreamer == Tags(r.channel, r.user).badges.broadcaster = "1"
        percent == ParseIntArg0(args)
    IN IF ~isStreamer THEN Say(r, "streamer_only", 0, "return")
       ELSE IF IsNaNOrOut(percent)
       THEN Say([r EXCEPT !.percent = percent], "usage", 0, "return")
       ELSE Say([r EXCEPT !.percent = percent], "creating", percent.val,
                "callBackend")

\* COMMANDS.drop.execute up to its first await
DropExecute(r, args, last, t) ==
    LET isStreamer == Tags(r.channel, r.user).badges.broadcaster = "1"
        sinceLast == t - last
        percent == ParseIntArg0(args)
    IN IF ~isStreamer THEN Say(r, "streamer_only", 0, "return")
       ELSE IF sinceLast < GLOBAL_DROP_COOLDOWN_MS
       THEN Say(r, "drop_cooldown",
                CeilDiv(GLOBAL_DROP_COOLDOWN_MS - sinceLast, 1000), "return")
       ELSE IF IsNaNOrOut(percent)
       THEN Say([r EXCEPT !.percent = percent], "usage", 0, "return")
       ELSE Say([r EXCEPT !.percent = percent], "creating", percent.val,
                "callBackend")

\* COMMANDS.reload.execute up to its first await
ReloadExecute(r, owner) ==
    LET user == Tags(r.channel, r.user).username
    IN IF owner = "" \/ user # owner THEN Say(r, "not_allowed", 0, "return")
       ELSE Say(r, "reloading", 0, "sync")

\* command.execute(channel, tags, args) inside the dispatcher's try
Execute(r, args, cds, last, owner, t) ==
    LET r1 == [r EXCEPT !.runs = r.runs + 1]
    IN CASE r.cmd = "ping" -> PingExecute(r1)
         [] r.cmd = "help" -> HelpExecute(r1)
         [] r.cmd = "discount" -> DiscountExecute(r1, cds, t)
         [] r.cmd = "drop" -> DropExecute(r1, args, last, t)
         [] r.cmd = "reload" -> ReloadExecute(r1, owner)
         \* an inherited property has no execute: the call throws TypeError
         [] OTHER -> DispatchCatch(r)

\* a dispatcher that runs the handler whatever the cooldown
OnMessage_NoCooldownGate(r0, channel, user, self, message, cds, last, owner, t) ==
    LET r == [r0 EXCEPT !.channel = channel, !.user = user,
                        !.line = LineClass(self, message),
                        !.arg = ArgClass(message)]
        done == [r EXCEPT !.pc = "done"]
        withoutPrefix == Trim(Slice(message, Len(COMMAND_PREFIX)))
        parts == SplitWs(withoutPrefix)
        command == Lookup(ToLowerCase(parts[1]))
        cd == IF command \in CommandNames
              THEN IsOnCooldown(cds, command, Tags(channel, user).userId, t)
              ELSE 0
        r2 == [r EXCEPT !.cmd = command, !.onCooldown = cd > 0]
    IN IF self THEN done
       ELSE IF ~StartsWith(message, COMMAND_PREFIX) THEN done
       ELSE IF Len(withoutPrefix) = 0 THEN done
       ELSE IF command = NoCommand THEN done
       ELSE Execute(r2, Tail(parts), cds, last, owner, t)

\* client.on("message") from the start to its first await
OnMessage(r0, channel, user, self, message, cds, last, owner, t) ==
    LET r == [r0 EXCEPT !.channel = channel, !.user = user,
                        !.line = LineClass(self, message),
                        !.arg = ArgClass(message)]
        done == [r EXCEPT !.pc = "done"]
        withoutPrefix == Trim(Slice(message, Len(COMMAND_PREFIX)))
        parts == SplitWs(withoutPrefix)
        commandName == ToLowerCase(parts[1])
        args == Tail(parts)
        command == Lookup(commandName)
        userId == Tags(channel, user).userId
        cd == IF command \in CommandNames
              THEN IsOnCooldown(cds, command, userId, t) ELSE 0
        r2 == [r EXCEPT !.cmd = command, !.onCooldown = cd > 0]
    IN IF self THEN done
       ELSE IF ~StartsWith(message, COMMAND_PREFIX) THEN done
       ELSE IF Len(withoutPrefix) = 0 THEN done
       ELSE IF command = NoCommand THEN done
       ELSE IF cd > 0 /\ command # "discount" THEN Say(r2, "wait", cd, "end")
       ELSE Execute(r2, args, cds, last, owner, t)

----------------------------------------------------------------------------
(* Results of the external calls *)

Codes == {"DROP-A", "DROP-B"}
Reasons == {"plan_limit", "disabled", "not_connected", "cooldown",
            "limit_reached", "not_found", "network_error"}

\* what await requestViewerDiscount(...) gives: a thrown error, null, or an
\* object with or without an ok field
ViewerResult(kind, ok, reason, hasMessage, code) ==
    [kind |-> kind, ok |-> ok, reason |-> reason, hasMessage |-> hasMessage,
     retryAfterSeconds |-> 0, discountCode |-> code]

ViewerResults ==
    {ViewerResult("throw", "undefined", "", FALSE, ""),
     ViewerResult("null", "undefined", "", FALSE, ""),
     ViewerResult("object", "undefined", "", FALSE, "")}
    \cup {ViewerResult("object", "true", "", FALSE, c) : c \in Codes}
    \cup {ViewerResult("object", "false", rs, FALSE, "") : rs \in Reasons}
    \cup {ViewerResult("object", "false", "plan_limit", TRUE, "")}

\* one result of each shape the discount handler distinguishes
CoreViewerResults ==
    {ViewerResult("throw", "undefined", "", FALSE, ""),
     ViewerResult("object", "undefined", "", FALSE, ""),
     ViewerResult("object", "true", "", FALSE, "DROP-A"),
     ViewerResult("object", "false", "limit_reached", FALSE, ""),
     ViewerResult("object", "false", "network_error", FALSE, "")}

\* what the HTTP exchange behind requestViewerDiscount can do: fetch rejects
\* (the backend cannot be reached), or it resolves with a response of some
\* status whose body cannot be read ("fails": the stream breaks), is no JSON
\* ("text") or is a JSON value ("json")
JsonValue(type, ok, reason, hasMessage, code) ==
    [type |-> type, ok |-> ok, reason |-> reason, hasMessage |-> hasMessage,
     code |-> code]

NoData == JsonValue("none", "undefined", "", FALSE, "")

JsonObject(ok, reason, hasMessage, code) ==
    JsonValue("object", ok, reason, hasMessage, code)

HttpOutcome(fetch, status, body, data) ==
    [fetch |-> fetch, status |-> status, body |-> body, data |-> data]

HttpOutcomes ==
    {HttpOutcome("rejects", 0, "none", NoData),
     HttpOutcome("responds", 200, "fails", NoData),
     HttpOutcome("responds", 404, "text", NoData),
     HttpOutcome("responds", 502, "text", NoData),
     HttpOutcome("responds", 200, "json",
                 JsonValue("null", "undefined", "", FALSE, "")),
     HttpOutcome("responds", 500, "json",
                 JsonValue("number", "undefined", "", FALSE, "")),
     HttpOutcome("responds", 200, "json",
                 JsonValue("array", "undefined", "", FALSE, "")),
     HttpOutcome("responds", 200, "json", JsonObject("true", "", FALSE, "DROP-A")),
     HttpOutcome("responds", 200, "json", JsonObject("undefined", "", FALSE, "")),
     HttpOutcome("responds", 403, "json",
                 JsonObject("false", "plan_limit", TRUE, "")),
     HttpOutcome("responds", 404, "json",
                 JsonObject("false", "not_found", FALSE, "")),
     HttpOutcome("responds", 429, "json",
                 JsonObject("false", "limit_reached", FALSE, "")),
     HttpOutcome("responds", 500, "json",
                 JsonObject("false", "internal", FALSE, ""))}

\* readJsonOrText(res) once res.text() has resolved: JSON.parse of the body,
\* the raw text when it does not parse
ReadJsonOrText(o) ==
    IF o.body = "json" THEN [kind |-> "json", data |-> o.data]
    ELSE [kind |-> "text", data |-> NoData]

\* parsed.data && typeof parsed.data === "object": objects and arrays, not
\* null, not a number
TruthyObject(data) == data.type \in {"object", "array"}

\* requestViewerDiscount, first definition: a rejected fetch is caught and
\* answered with network_error; await readJsonOrText(res) stands outside the
\* try, so a rejected res.text() rejects the request; a JSON object or array
\* is returned with its own fields (httpStatus, which nothing reads, is left
\* out); anything else gives the fallback
RequestViewerDiscount(o) ==
    IF o.fetch = "rejects"
    THEN ViewerResult("object", "false", "network_error", TRUE, "")
    ELSE IF o.body = "fails"
    THEN ViewerResult("throw", "undefined", "", FALSE, "")
    ELSE LET parsed == ReadJsonOrText(o)
         IN IF parsed.kind = "json" /\ TruthyObject(parsed.data)
            THEN ViewerResult("object", parsed.data.ok, parsed.data.reason,
                              parsed.data.hasMessage, parsed.data.code)
            ELSE ViewerResult("object", "false",
                              IF o.status = 404 THEN "not_found"
                              ELSE "http_error", TRUE, "")

\* requestViewerDiscount, second definition: await fetch and await res.json()
\* without a try; whatever JSON value the body holds is returned (a number
\* has no ok field, as an object without one)
RequestViewerDiscount2(o) ==
    IF o.fetch = "rejects" \/ o.body # "json"
    THEN ViewerResult("throw", "undefined", "", FALSE, "")
    ELSE IF o.data.type = "null"
    THEN ViewerResult("null", "undefined", "", FALSE, "")
    ELSE ViewerResult("object", o.data.ok, o.data.reason, o.data.hasMessage,
                      o.data.code)

\* both definitions are written for the same file, discountApi.js, which
\* bot.js requires: the build holds one of them
DiscountApis == {"first", "second"}

LoadedRequest(api, o) ==
    IF api = "first" THEN RequestViewerDiscount(o) ELSE RequestViewerDiscount2(o)

\* the case of an exchange, as the behaviour of the request is described
OutcomeCase(o) ==
    IF o.fetch = "rejects" THEN "transport"
    ELSE IF o.body = "fails" THEN "body_lost"
    ELSE IF o.body = "json" /\ o.data.type = "object" THEN "json_object"
    ELSE IF o.body = "json" /\ o.data.type = "array" THEN "json_array"
    ELSE IF o.status = 404 THEN "other_404"
    ELSE "other"

\* what await callBackend(...) gives: a thrown error or an object
BackendResult(kind, ok, reason, hasMessage, hasError, hasDrop, code) ==
    [kind |-> kind, ok |-> ok, reason |-> reason, hasMessage |-> hasMessage,
     hasError |-> hasError, hasDrop |-> hasDrop, code |-> code]

BackendResults ==
    {BackendResult("throw", FALSE, "", FALSE, FALSE, FALSE, ""),
     BackendResult("object", TRUE, "", FALSE, FALSE, TRUE, "GLOBAL-A"),
     BackendResult("object", TRUE, "", FALSE, FALSE, FALSE, ""),
     BackendResult("object", FALSE, "plan_limit", TRUE, FALSE, FALSE, ""),
     BackendResult("object", FALSE, "", FALSE, TRUE, FALSE, ""),
     BackendResult("object", FALSE, "", FALSE, FALSE, FALSE, "")}

----------------------------------------------------------------------------
(* syncJoinsFromBackend *)

N_alice == <<"a","l","i","c","e">>
N_bob == <<"b","o","b">>
N_carol == <<"c","a","r","o","l">>

\* the static channel list of the environment, lower-cased and trimmed
StaticChannels == {N_alice, N_bob}

IdleSync == [pc |-> "idle", list |-> <<>>, idx |-> 0, joins |-> <<>>]

RECURSIVE FilterNonEmpty(_)
FilterNonEmpty(l) ==
    IF l = <<>> THEN <<>>
    ELSE IF Head(l) = <<>> THEN FilterNonEmpty(Tail(l))
    ELSE <<Head(l)>> \o FilterNonEmpty(Tail(l))

\* data.channels.map((c) => String(c || "").trim().toLowerCase()).filter(Boolean)
NormalizeList(l) ==
    FilterNonEmpty([k \in 1..Len(l) |-> ToLowerCase(Trim(l[k]))])

\* a loop that joins every channel of the list
RECURSIVE SyncLoop_NoSkip(_, _, _)
SyncLoop_NoSkip(sr, k, joined) ==
    IF k > Len(sr.list) THEN [sr EXCEPT !.pc = "done", !.idx = k]
    ELSE [sr EXCEPT !.pc = "join", !.idx = k,
                    !.joins = Append(sr.joins, sr.list[k])]

\* the for loop from position k on: skip the channels already joined, call
\* client.join on the first that is not, finish at the end of the list
RECURSIVE SyncLoop(_, _, _)
SyncLoop(sr, k, joined) ==
    IF k > Len(sr.list) THEN [sr EXCEPT !.pc = "done", !.idx = k]
    ELSE IF sr.list[k] \in joined THEN SyncLoop(sr, k + 1, joined)
    ELSE [sr EXCEPT !.pc = "join", !.idx = k,
                    !.joins = Append(sr.joins, sr.list[k])]

\* the response of the roster request: a thrown error, a body that is not
\* {ok: true, channels: [...]}, or such a body
FetchResponse(kind, channels) == [kind |-> kind, channels |-> channels]

\* syncJoinsFromBackend after the roster request returned
SyncFetched(sr, resp, joined) ==
    IF resp.kind # "list" THEN [sr EXCEPT !.pc = "done"]
    ELSE LET list == NormalizeList(resp.channels)
         IN IF Len(list) = 0 THEN [sr EXCEPT !.pc = "done"]
            ELSE SyncLoop([sr EXCEPT !.list = list], 1, joined)

\* a sync that gives up at the first join that fails
SyncJoined_StopsOnFailure(sr, ok, joined) ==
    IF ok THEN [sr EXCEPT !.pc = "sleep"]
    ELSE [sr EXCEPT !.pc = "done"]

\* syncJoinsFromBackend after await client.join(ch) resolved or rejected
SyncJoined(sr, ok, joined) ==
    IF ok THEN [sr EXCEPT !.pc = "sleep"]
    ELSE SyncLoop(sr, sr.idx + 1, joined)

JoinedAfter(sr, ok, joined) ==
    IF ok THEN joined \cup {sr.list[sr.idx]} ELSE joined

\* syncJoinsFromBackend after await sleep(900)
SyncSlept(sr, joined) == SyncLoop(sr, sr.idx + 1, joined)

----------------------------------------------------------------------------
(* The issuance flows against the commerce API (createDiscountForViewer, *)
(* createGlobalDrop): a price rule, then a discount code under that rule *)

Flows == 1..MaxFlows

\* the id of a price rule; NoId stands for undefined
RuleIds == {101, 102}
NoId == 0

\* a request sent with axios.post: a price rule of value percent off, or a
\* discount code under the price rule named in the URL
PriceRuleRequest(percent) ==
    [op |-> "price_rule", rule |-> NoId, code |-> <<>>, value |-> percent]
DiscountCodeRequest(rule, code) ==
    [op |-> "discount_code", rule |-> rule, code |-> code, value |-> 0]

\* the answer to axios.post: a thrown error (no answer, or a status outside
\* 2xx), or a body with or without the created object
ApiResponse(kind, hasObject, id) ==
    [kind |-> kind, hasObject |-> hasObject, id |-> id]

PriceRuleResponses ==
    {ApiResponse("throw", FALSE, NoId), ApiResponse("body", FALSE, NoId)}
    \cup {ApiResponse("body", TRUE, id) : id \in RuleIds \cup {NoId}}

DiscountCodeResponses ==
    {ApiResponse("throw", FALSE, NoId), ApiResponse("body", FALSE, NoId),
     ApiResponse("body", TRUE, 7)}

NoResult == [given |-> FALSE, defined |-> FALSE, code |-> <<>>, id |-> NoId]

IdleFlow ==
    [pc |-> "idle", kind |-> "", username |-> <<>>, code |-> <<>>,
     requests |-> <<>>, result |-> NoResult,
     ruleResponse |-> "", ruleId |-> NoId, codeResponse |-> ""]

\* `DROP-${username.toUpperCase()}-${random}`
PersonalCode(username, random) ==
    <<"D","R","O","P","-">> \o ToUpperCase(username) \o <<"-">> \o random

\* Math.floor(1000 + Math.random() * 9000) in decimal: two of 1000..9999
Randoms == {<<"1","0","0","0">>, <<"9","9","9","9">>}

G_code == <<"G","L","O","B","A","L">>

\* the flow rejects to its caller
FlowFails(fl) == [fl EXCEPT !.pc = "failed"]

\* createDiscountForViewer(username) up to the await in createPriceRule
CreateDiscountForViewer(fl, username) ==
    [fl EXCEPT !.pc = "rule", !.kind = "personal", !.username = username,
               !.requests = <<PriceRuleRequest(10)>>]

\* createGlobalDrop(code, percent) up to its first await
CreateGlobalDrop(fl, code, percent) ==
    [fl EXCEPT !.pc = "rule", !.kind = "global", !.code = code,
               !.requests = <<PriceRuleRequest(percent)>>]

\* a flow that asks for the code whatever the price rule request gave
PriceRuleReturned_GoesOn(fl, resp, random) ==
    LET code == IF fl.kind = "personal" THEN PersonalCode(fl.username, random)
                ELSE fl.code
    IN [fl EXCEPT !.pc = "code", !.code = code,
                  !.requests = Append(fl.requests,
                                      DiscountCodeRequest(resp.id, code))]

\* after the price rule request returned: res.data.price_rule (personal:
\* priceRule.id) throws TypeError on a body without price_rule; otherwise the
\* discount code request goes to /price_rules/${id}/discount_codes.json
PriceRuleReturned(fl, resp, random) ==
    LET code == IF fl.kind = "personal" THEN PersonalCode(fl.username, random)
                ELSE fl.code
    IN IF resp.kind = "throw" \/ ~resp.hasObject THEN FlowFails(fl)
       ELSE [fl EXCEPT !.pc = "code", !.code = code,
                       !.requests = Append(fl.requests,
                                           DiscountCodeRequest(resp.id, code))]

\* after the discount code request returned: the personal flow reads
\* res.data.discount_code.id (TypeError without discount_code), the global
\* flow returns codeRes.data.discount_code, undefined or not
DiscountCodeReturned(fl, resp) ==
    IF resp.kind = "throw" THEN FlowFails(fl)
    ELSE IF fl.kind = "personal"
    THEN IF ~resp.hasObject THEN FlowFails(fl)
         ELSE [fl EXCEPT !.pc = "returned",
                         !.result = [given |-> TRUE, defined |-> TRUE,
                                     code |-> fl.code, id |-> resp.id]]
    ELSE [fl EXCEPT !.pc = "returned",
                    !.result = IF resp.hasObject
                               THEN [given |-> TRUE, defined |-> TRUE,
                                     code |-> fl.code, id |-> resp.id]
                               ELSE [NoResult EXCEPT !.given = TRUE]]

----------------------------------------------------------------------------
(* The handlers after their awaits *)

\* the dispatcher after await command.execute(...) returned: the cooldown of
\* (commandName, userId) is set for every command but discount
HandlerReturned(r, cds, t) ==
    [r |-> [r EXCEPT !.pc = "done"],
     cds |-> IF r.cmd # "discount"
             THEN SetCooldown(cds, r.cmd, Tags(r.channel, r.user).userId,
                              CustomCd(r.cmd), t)
             ELSE cds]

\* a dispatcher that sends a reply of its own after the handler returned
SayResolved_Acknowledge(r0, cds, t) ==
    LET r == [r0 EXCEPT !.replies = Append(r0.replies, r0.pending),
                        !.pending = NoReply]
    IN CASE r.cont = "end" -> [r |-> [r EXCEPT !.pc = "done"], cds |-> cds]
         [] r.cont = "return" ->
              [r |-> Say(r, "done", 0, "end"), cds |-> HandlerReturned(r, cds, t).cds]
         [] r.cont = "request" ->
              [r |-> [r EXCEPT !.pc = "request", !.ext = r.ext + 1], cds |-> cds]
         [] r.cont = "callBackend" ->
              [r |-> [r EXCEPT !.pc = "backend", !.ext = r.ext + 1,
                               !.extPercent = r.percent], cds |-> cds]
         [] r.cont = "sync" ->
              [r |-> [r EXCEPT !.pc = "sync", !.syncRuns = r.syncRuns + 1],
               cds |-> cds]

\* an awaited client.say resolved: the reply is in the chat
SayResolved(r0, cds, t) ==
    LET r == [r0 EXCEPT !.replies = Append(r0.replies, r0.pending),
                        !.pending = NoReply]
    IN CASE r.cont = "end" -> [r |-> [r EXCEPT !.pc = "done"], cds |-> cds]
         [] r.cont = "return" -> HandlerReturned(r, cds, t)
         [] r.cont = "request" ->
              [r |-> [r EXCEPT !.pc = "request", !.ext = r.ext + 1], cds |-> cds]
         [] r.cont = "callBackend" ->
              [r |-> [r EXCEPT !.pc = "backend", !.ext = r.ext + 1,
                               !.extPercent = r.percent], cds |-> cds]
         [] r.cont = "sync" ->
              [r |-> [r EXCEPT !.pc = "sync", !.syncRuns = r.syncRuns + 1],
               cds |-> cds]

\* a dispatcher that drops a failed handler without a word
SayRejected_Silent(r0) ==
    [r0 EXCEPT !.pending = NoReply, !.pc = "done", !.raised = r0.cont # "end",
               !.escaped = r0.cont = "end"]

\* an awaited client.say rejected: a reply of the dispatcher itself is
\* returned outside any try, so the rejection leaves the message handler; a
\* reply of a command handler rejects command.execute, which the dispatcher
\* catches
SayRejected(r0) ==
    LET r == [r0 EXCEPT !.pending = NoReply]
    IN IF r.cont = "end" THEN [r EXCEPT !.pc = "done", !.escaped = TRUE]
       ELSE DispatchCatch(r)

\* a discount handler that sets the cooldown before it looks at the result
DiscountReturned_CooldownFirst(r0, result, cds, cl, t) ==
    LET r == [r0 EXCEPT !.got = IF result.kind = "object" THEN result.ok
                                 ELSE result.kind]
        userId == Tags(r.channel, r.user).userId
        cds1 == SetCooldown(cds, "discount", userId, COMMAND_COOLDOWNS.discount, t)
    IN IF result.kind = "object" /\ result.ok = "true"
       THEN [r |-> Say(r, "code", 0, "return"),
             cl |-> SetUserDiscount(cl, r.channel, userId, result.discountCode, t),
             cds |-> cds1]
       ELSE [r |-> Say(r, "went_wrong", 0, "return"), cl |-> cl, cds |-> cds1]

\* COMMANDS.discount.execute after await requestViewerDiscount(...)
DiscountReturned(r0, result, cds, cl, t) ==
    LET r == [r0 EXCEPT !.got = IF result.kind = "object" THEN result.ok
                                 ELSE result.kind]
        userId == Tags(r.channel, r.user).userId
        same(kind, n) == [r |-> Say(r, kind, n, "return"), cds |-> cds, cl |-> cl]
    IN IF result.kind = "throw" THEN same("went_wrong", 0)
       ELSE IF result.kind = "null" \/ result.ok = "undefined"
       THEN same("bad_response", 0)
       ELSE IF result.ok # "true"
       THEN IF result.reason = "plan_limit" /\ result.hasMessage
            THEN same("plan_limit", 0)
            ELSE CASE result.reason = "disabled" -> same("disabled", 0)
                   [] result.reason = "not_connected" -> same("not_connected", 0)
                   [] result.reason = "cooldown" ->
                        same("backend_cooldown",
                             IF result.retryAfterSeconds # 0
                             THEN result.retryAfterSeconds ELSE 10)
                   [] result.reason = "limit_reached" ->
                        IF GetUserDiscount(cl, r.channel, userId, t) # NoClaim
                        THEN same("already_claimed", 0)
                        ELSE same("already_redeemed", 0)
                   [] result.reason = "not_found" -> same("not_registered", 0)
                   [] OTHER -> same("went_wrong", 0)
       ELSE [r |-> Say(r, "code", 0, "return"),
             cl |-> SetUserDiscount(cl, r.channel, userId, result.discountCode, t),
             cds |-> SetCooldown(cds, "discount", userId,
                                 COMMAND_COOLDOWNS.discount, t)]

\* COMMANDS.drop.execute after await callBackend(...)
DropReturned(r0, data, last, t) ==
    LET r == [r0 EXCEPT !.got = IF data.kind # "object" THEN data.kind
                                 ELSE IF data.ok THEN "true" ELSE "false"]
        same(kind) == [r |-> Say(r, kind, 0, "return"), last |-> last]
    IN IF data.kind = "throw" THEN same("drop_failed")
       ELSE IF ~data.ok
       THEN IF data.reason = "plan_limit" /\ data.hasMessage
            THEN same("plan_limit")
            ELSE IF data.hasError THEN same("backend_error")
            ELSE same("drop_unconfigured")
       \* data.drop.code throws TypeError when there is no drop: caught
       ELSE IF ~data.hasDrop THEN same("drop_failed")
       ELSE [r |-> Say(r, "drop_activated", r.percent.val, "return"), last |-> t]

\* COMMANDS.reload.execute after await syncJoinsFromBackend()
ReloadSynced(r) == Say(r, "synced", 0, "return")

----------------------------------------------------------------------------
(* The connected and disconnected handlers *)

NoTimer == 0

\* no connected event yet: autoJoinInterval = null, no timer.  handlers[k] is
\* where the connected handler that uses sync run k stands; connected says
\* whether the last event was connected; sets counts the setInterval calls
\* and overlap says that a connected event came while a handler was waiting
NoConn ==
    [autoJoinInterval |-> NoTimer, timers |-> {}, sets |-> 0,
     handlers |-> [k \in Inv |-> "idle"],
     connected |-> FALSE, connects |-> 0, overlap |-> FALSE]

\* a connected handler that sets its timer without clearing the old one
ConnectedSynced_NoClear(c, k) ==
    [c EXCEPT !.timers = c.timers \cup {c.sets + 1},
              !.autoJoinInterval = c.sets + 1,
              !.sets = c.sets + 1,
              !.handlers[k] = "done"]

\* client.on("connected") after await syncJoinsFromBackend(): clearInterval
\* of autoJoinInterval if set, then setInterval, whose id is a new one
ConnectedSynced(c, k) ==
    [c EXCEPT !.timers = (IF c.autoJoinInterval # NoTimer
                          THEN c.timers \ {c.autoJoinInterval}
                          ELSE c.timers) \cup {c.sets + 1},
              !.autoJoinInterval = c.sets + 1,
              !.sets = c.sets + 1,
              !.handlers[k] = "done"]

\* the sync run of a connected handler finished: the handler goes on
ConnectedResumes(c, k, sr) ==
    IF sr.pc = "done" /\ c.handlers[k] = "sync" THEN ConnectedSynced(c, k)
    ELSE c

\* client.on("disconnected")
Disconnected(c) ==
    IF c.autoJoinInterval # NoTimer
    THEN [c EXCEPT !.timers = c.timers \ {c.autoJoinInterval},
                   !.autoJoinInterval = NoTimer]
    ELSE c

----------------------------------------------------------------------------
(* The state machine *)

\* which parts of the ledger a step of an invocation changed
Wrote(r, cds, cl, last) ==
    r.wrote \cup (IF cds # cooldowns THEN {"cooldowns"} ELSE {})
            \cup (IF cl # claimedDiscounts THEN {"claimedDiscounts"} ELSE {})
            \cup (IF last # lastGlobalDropAt THEN {"lastGlobalDropAt"} ELSE {})

\* the discount handler replied with a code and the handling is over
GotCode(r) ==
    /\ r.pc = "done" /\ r.cmd = "discount" /\ ~r.raised
    /\ r.replies = <<Reply("generating", 0), Reply("code", 0)>>

\* user sent a discount line in channel less than 30 s ago, and its handling
\* is over and gave a code
RecentCode(channel, user) ==
    \E j \in Inv : /\ GotCode(inv[j])
                    /\ inv[j].channel = channel /\ inv[j].user = user
                    /\ now - inv[j].at < COMMAND_COOLDOWNS.discount

\* the durations the commands are said to be kept on cooldown for (ms)
SaidDuration == [ping |-> 1000, help |-> 2000, discount |-> 30000,
                 drop |-> 300000, reload |-> 10000]

NoCommit == [at |-> 0, ms |-> 0]
NoRecord == [code |-> "", at |-> 0]

\* nothing was issued, committed or recorded yet
NoHist ==
    [issued |-> 0,
     commit |-> [c \in CommandNames |-> [u \in Users |-> NoCommit]],
     claim |-> [c \in Channels |-> [u \in Users |-> NoRecord]],
     joinedOk |-> {}]

\* a global drop was issued less than 5 minutes ago
DropIssuedRecently == hist.issued > 0 /\ now < hist.issued + 300000

\* a cooldown of (command, user) was committed and has not run out
CommitRunning(command, user) ==
    LET c == hist.commit[command][user]
    IN c # NoCommit /\ now < c.at + c.ms

Init ==
    /\ now = StartTime
    /\ cooldowns = [c \in CommandNames |-> [u \in Users |-> 0]]
    /\ claimedDiscounts = [c \in Channels |-> [u \in Users |-> NoClaim]]
    /\ lastGlobalDropAt = 0
    /\ joinedChannels = StaticChannels
    /\ ownerName = "bob"
    /\ inv = [i \in Inv |-> IdleInv]
    /\ sync = [i \in Inv |-> IdleSync]
    /\ ticks = 0
    /\ hist = NoHist
    /\ flow = [f \in Flows |-> IdleFlow]
    /\ conn = NoConn
    /\ discountApi = "first"

\* a chat line arrives.  The bot's own lines (self) are its replies, and no
\* reply starts with the command prefix.
Message(i, channel, user, self, message) ==
    /\ inv[i].pc = "idle"
    /\ \A j \in Inv : j < i => inv[j].pc # "idle"
    /\ self => ~StartsWith(message, COMMAND_PREFIX)
    /\ LET r == OnMessage(inv[i], channel, user, self, message, cooldowns,
                           lastGlobalDropAt, ownerName, now)
       IN inv' = [inv EXCEPT ![i] =
                    [r EXCEPT !.recent = r.cmd = "discount"
                                         /\ RecentCode(channel, user),
                              !.gated = r.cmd = "drop" /\ DropIssuedRecently,
                              !.blocked = r.cmd \in CommandNames
                                          /\ CommitRunning(r.cmd, user)]]
    /\ UNCHANGED <<now, cooldowns, claimedDiscounts, lastGlobalDropAt,
                   joinedChannels, ownerName, sync, ticks, hist, flow, conn, discountApi>>

SayResolves(i) ==
    /\ inv[i].pc = "say"
    /\ LET o == SayResolved(inv[i], cooldowns, now)
       IN /\ cooldowns' = o.cds
          /\ inv' = [inv EXCEPT ![i] =
                       [o.r EXCEPT !.wrote = Wrote(o.r, o.cds, claimedDiscounts,
                                                   lastGlobalDropAt)]]
          /\ sync' = IF o.r.pc = "sync"
                     THEN [sync EXCEPT ![i] = [IdleSync EXCEPT !.pc = "fetch"]]
                     ELSE sync
    \* the handler returned without raising: the cooldown is due
    /\ hist' = IF inv[i].cont = "return" /\ inv[i].cmd # "discount"
               THEN [hist EXCEPT !.commit[inv[i].cmd][inv[i].user] =
                       [at |-> now, ms |-> SaidDuration[inv[i].cmd]]]
               ELSE hist
    /\ UNCHANGED <<now, claimedDiscounts, lastGlobalDropAt, joinedChannels,
                   ownerName, ticks, flow, conn, discountApi>>

SayRejects(i) ==
    /\ inv[i].pc = "say"
    /\ inv' = [inv EXCEPT ![i] = SayRejected(inv[i])]
    /\ UNCHANGED <<now, cooldowns, claimedDiscounts, lastGlobalDropAt,
                   joinedChannels, ownerName, sync, ticks, hist, flow, conn, discountApi>>

\* await requestViewerDiscount(...) settles with result; case names the
\* exchange that led to it ("" when the result is drawn directly)
ViewerDiscountSettles(i, result, case) ==
    /\ inv[i].pc = "request"
    /\ LET o == DiscountReturned(inv[i], result, cooldowns, claimedDiscounts, now)
       IN /\ cooldowns' = o.cds
          /\ claimedDiscounts' = o.cl
          /\ inv' = [inv EXCEPT ![i] =
                       [o.r EXCEPT !.wrote = Wrote(o.r, o.cds, o.cl,
                                                   lastGlobalDropAt),
                                   !.outcome = case,
                                   !.reason = IF result.kind = "object"
                                              THEN result.reason ELSE ""]]
    \* the issuance succeeded: claim and cooldown are due
    /\ hist' = IF result.kind = "object" /\ result.ok = "true"
               THEN [hist EXCEPT
                       !.commit["discount"][inv[i].user] =
                           [at |-> now, ms |-> SaidDuration.discount],
                       !.claim[inv[i].channel][inv[i].user] =
                           [code |-> result.discountCode, at |-> now]]
               ELSE hist
    /\ UNCHANGED <<now, lastGlobalDropAt, joinedChannels, ownerName, sync,
                   ticks, flow, conn, discountApi>>

ViewerDiscountReturns(i, result) == ViewerDiscountSettles(i, result, "")

\* the HTTP exchange of the request ends as o says; the loaded definition
\* turns it into what the handler's await sees
ViewerDiscountResponds(i, o) ==
    ViewerDiscountSettles(i, LoadedRequest(discountApi, o), OutcomeCase(o))

BackendReturns(i, data) ==
    /\ inv[i].pc = "backend"
    /\ LET o == DropReturned(inv[i], data, lastGlobalDropAt, now)
       IN /\ lastGlobalDropAt' = o.last
          /\ inv' = [inv EXCEPT ![i] =
                       [o.r EXCEPT !.wrote = Wrote(o.r, cooldowns,
                                                   claimedDiscounts, o.last)]]
    \* the backend issued the drop
    /\ hist' = IF data.kind = "object" /\ data.ok /\ data.hasDrop
               THEN [hist EXCEPT !.issued = now]
               ELSE hist
    /\ UNCHANGED <<now, cooldowns, claimedDiscounts, joinedChannels, ownerName,
                   sync, ticks, flow, conn, discountApi>>

\* the sync run of a reload finished: the reload handler goes on
Resume(i, sr) ==
    IF sr.pc = "done" /\ inv[i].pc = "sync"
    THEN [inv EXCEPT ![i] = ReloadSynced(inv[i])]
    ELSE inv

RosterReturns(i, resp) ==
    /\ sync[i].pc = "fetch"
    /\ LET sr == SyncFetched(sync[i], resp, joinedChannels)
       IN /\ sync' = [sync EXCEPT ![i] = sr]
          /\ inv' = Resume(i, sr)
          /\ conn' = ConnectedResumes(conn, i, sr)
    /\ UNCHANGED <<now, cooldowns, claimedDiscounts, lastGlobalDropAt,
                   joinedChannels, ownerName, ticks, hist, flow, discountApi>>

JoinReturns(i, ok) ==
    /\ sync[i].pc = "join"
    /\ LET joined == JoinedAfter(sync[i], ok, joinedChannels)
           sr == SyncJoined(sync[i], ok, joined)
       IN /\ joinedChannels' = joined
          /\ sync' = [sync EXCEPT ![i] = sr]
          /\ inv' = Resume(i, sr)
          /\ conn' = ConnectedResumes(conn, i, sr)
    \* the chat client joined the channel
    /\ hist' = IF ok THEN [hist EXCEPT !.joinedOk =
                             @ \cup {sync[i].list[sync[i].idx]}]
               ELSE hist
    /\ UNCHANGED <<now, cooldowns, claimedDiscounts, lastGlobalDropAt,
                   ownerName, ticks, flow, discountApi>>

SleepReturns(i) ==
    /\ sync[i].pc = "sleep"
    /\ LET sr == SyncSlept(sync[i], joinedChannels)
       IN /\ sync' = [sync EXCEPT ![i] = sr]
          /\ inv' = Resume(i, sr)
          /\ conn' = ConnectedResumes(conn, i, sr)
    /\ UNCHANGED <<now, cooldowns, claimedDiscounts, lastGlobalDropAt,
                   joinedChannels, ownerName, ticks, hist, flow, discountApi>>

\* time passes
Tick(d) ==
    /\ ticks < MaxTicks
    /\ now' = now + d
    /\ ticks' = ticks + 1
    /\ UNCHANGED <<cooldowns, claimedDiscounts, lastGlobalDropAt,
                   joinedChannels, ownerName, inv, sync, hist, flow, conn, discountApi>>

\* the rosters the backend answers a reload with
ReloadRosters ==
    {FetchResponse("bad", <<>>),
     FetchResponse("list", <<<<"B","o","b">>, <<>>, N_carol>>)}

Next ==
    \/ \E i \in Inv, cu \in Chatters, self \in BOOLEAN, m \in Messages :
          Message(i, cu[1], cu[2], self, m)
    \/ \E i \in Inv : SayResolves(i)
    \/ \E i \in Inv : SayRejects(i)
    \/ \E i \in Inv, result \in CoreViewerResults : ViewerDiscountReturns(i, result)
    \/ \E i \in Inv, data \in BackendResults : BackendReturns(i, data)
    \/ \E i \in Inv, resp \in ReloadRosters : RosterReturns(i, resp)
    \/ \E i \in Inv, ok \in BOOLEAN : JoinReturns(i, ok)
    \/ \E i \in Inv : SleepReturns(i)
    \/ \E d \in Deltas : Tick(d)

Spec == Init /\ [][Next]_vars

\* the authorization checks, with and without a configured owner
InitAuth ==
    /\ now = StartTime
    /\ cooldowns = [c \in CommandNames |-> [u \in Users |-> 0]]
    /\ claimedDiscounts = [c \in Channels |-> [u \in Users |-> NoClaim]]
    /\ lastGlobalDropAt = 0
    /\ joinedChannels = StaticChannels
    /\ ownerName \in {"", "bob"}
    /\ inv = [i \in Inv |-> IdleInv]
    /\ sync = [i \in Inv |-> IdleSync]
    /\ ticks = 0
    /\ hist = NoHist
    /\ flow = [f \in Flows |-> IdleFlow]
    /\ conn = NoConn
    /\ discountApi = "first"

AuthMessages ==
    { Bang \o W_reload,
      Bang \o W_drop \o Sp \o <<"1">>,
      Bang \o W_drop \o Sp \o <<"5","1">> }

NextAuth ==
    \/ \E i \in Inv, cu \in Chatters, m \in AuthMessages :
          Message(i, cu[1], cu[2], FALSE, m)
    \/ \E i \in Inv : SayResolves(i)
    \/ \E i \in Inv : SayRejects(i)
    \/ \E i \in Inv, data \in BackendResults : BackendReturns(i, data)
    \/ \E i \in Inv, resp \in ReloadRosters : RosterReturns(i, resp)
    \/ \E i \in Inv, ok \in BOOLEAN : JoinReturns(i, ok)
    \/ \E i \in Inv : SleepReturns(i)
    \/ \E d \in Deltas : Tick(d)

SpecAuth == InitAuth /\ [][NextAuth]_vars

----------------------------------------------------------------------------
(* The dispatcher when every chat send and every external call that is *)
(* awaited returns in the end, one way or the other                    *)

LiveMessages ==
    { W_ping, Bang \o W_foo, Bang \o W_ping, Bang \o W_discount,
      Bang \o W_drop \o Sp \o <<"1">>, Bang \o W_reload }

\* bob, the owner, writes in his own channel
LiveChatters == {<<"#bob", "bob">>}

NextLive ==
    \/ \E i \in Inv, cu \in LiveChatters, m \in LiveMessages :
          Message(i, cu[1], cu[2], FALSE, m)
    \/ \E i \in Inv : SayResolves(i)
    \/ \E i \in Inv : SayRejects(i)
    \/ \E i \in Inv, result \in CoreViewerResults : ViewerDiscountReturns(i, result)
    \/ \E i \in Inv, data \in BackendResults : BackendReturns(i, data)
    \/ \E i \in Inv, resp \in ReloadRosters : RosterReturns(i, resp)
    \/ \E i \in Inv, ok \in BOOLEAN : JoinReturns(i, ok)
    \/ \E i \in Inv : SleepReturns(i)

\* what the handling of line i awaits settles: the promise of client.say,
\* of the two backend requests, of the roster request, of client.join or of
\* sleep (the handling awaits one of them at a time)
ReturnTo(i) ==
    \/ SayResolves(i) \/ SayRejects(i)
    \/ \E result \in CoreViewerResults : ViewerDiscountReturns(i, result)
    \/ \E data \in BackendResults : BackendReturns(i, data)
    \/ \E resp \in ReloadRosters : RosterReturns(i, resp)
    \/ \E ok \in BOOLEAN : JoinReturns(i, ok)
    \/ SleepReturns(i)

\* what is awaited returns in the end
Returns == \A i \in Inv : WF_vars(ReturnTo(i))

SpecLive == Init /\ [][NextLive]_vars /\ Returns

----------------------------------------------------------------------------
(* The viewer-discount request: !discount lines whose request goes through *)
(* the loaded definition of requestViewerDiscount, over every HTTP outcome *)

InitViewer ==
    /\ now = StartTime
    /\ cooldowns = [c \in CommandNames |-> [u \in Users |-> 0]]
    /\ claimedDiscounts = [c \in Channels |-> [u \in Users |-> NoClaim]]
    /\ lastGlobalDropAt = 0
    /\ joinedChannels = StaticChannels
    /\ ownerName = "bob"
    /\ inv = [i \in Inv |-> IdleInv]
    /\ sync = [i \in Inv |-> IdleSync]
    /\ ticks = 0
    /\ hist = NoHist
    /\ flow = [f \in Flows |-> IdleFlow]
    /\ conn = NoConn
    /\ discountApi \in DiscountApis

ViewerMessages == {Bang \o W_discount}

NextViewer ==
    \/ \E i \in Inv, cu \in Chatters, m \in ViewerMessages :
          Message(i, cu[1], cu[2], FALSE, m)
    \/ \E i \in Inv : SayResolves(i)
    \/ \E i \in Inv : SayRejects(i)
    \/ \E i \in Inv, o \in HttpOutcomes : ViewerDiscountResponds(i, o)
    \/ \E d \in Deltas : Tick(d)

SpecViewer == InitViewer /\ [][NextViewer]_vars

----------------------------------------------------------------------------
(* The channel sync alone: syncJoinsFromBackend is called by the connected *)
(* handler, by the 60 s timer and by reload, also while an earlier run is  *)
(* still waiting                                                           *)

N_dave == <<"d","a","v","e">>

\* the rosters the backend answers with
SyncRosters ==
    {FetchResponse("bad", <<>>),
     FetchResponse("list", <<>>),
     FetchResponse("list", <<<<"B","o","b">>, <<>>, N_carol, N_dave>>),
     FetchResponse("list", <<N_dave, <<" ">> \o N_carol, N_carol, N_alice>>)}

\* syncJoinsFromBackend() is called: it awaits the roster request
SyncStarts(k) ==
    /\ sync[k].pc \in {"idle", "done"}
    /\ sync' = [sync EXCEPT ![k] = [IdleSync EXCEPT !.pc = "fetch"]]
    /\ UNCHANGED <<now, cooldowns, claimedDiscounts, lastGlobalDropAt,
                   joinedChannels, ownerName, inv, ticks, hist, flow, conn, discountApi>>

NextSync ==
    \/ \E k \in Inv : SyncStarts(k)
    \/ \E k \in Inv, resp \in SyncRosters : RosterReturns(k, resp)
    \/ \E k \in Inv, ok \in BOOLEAN : JoinReturns(k, ok)
    \/ \E k \in Inv : SleepReturns(k)

SpecSync == Init /\ [][NextSync]_vars

----------------------------------------------------------------------------
(* The connection: connected and disconnected events in any order, the *)
(* polling timers firing while they are active                          *)

\* slot k runs no sync and no connected handler waits for it
FreeSlot(k) == sync[k].pc \in {"idle", "done"} /\ conn.handlers[k] # "sync"

\* the connected event: the handler awaits the initial sync
ConnectedEvent(k) ==
    /\ conn.connects < MaxConnects
    /\ FreeSlot(k)
    /\ sync' = [sync EXCEPT ![k] = [IdleSync EXCEPT !.pc = "fetch"]]
    /\ conn' = [conn EXCEPT !.handlers[k] = "sync", !.connected = TRUE,
                            !.connects = conn.connects + 1,
                            !.overlap = conn.overlap
                                \/ \E l \in Inv : conn.handlers[l] = "sync"]
    /\ UNCHANGED <<now, cooldowns, claimedDiscounts, lastGlobalDropAt,
                   joinedChannels, ownerName, inv, ticks, hist, flow, discountApi>>

\* the disconnected event
DisconnectedEvent ==
    /\ conn.connected
    /\ conn' = [Disconnected(conn) EXCEPT !.connected = FALSE]
    /\ UNCHANGED <<now, cooldowns, claimedDiscounts, lastGlobalDropAt,
                   joinedChannels, ownerName, inv, sync, ticks, hist, flow, discountApi>>

\* an active timer fires: syncJoinsFromBackend() is called, nothing awaits it
TimerFires(t, k) ==
    /\ t \in conn.timers
    /\ FreeSlot(k)
    /\ sync' = [sync EXCEPT ![k] = [IdleSync EXCEPT !.pc = "fetch"]]
    /\ UNCHANGED <<now, cooldowns, claimedDiscounts, lastGlobalDropAt,
                   joinedChannels, ownerName, inv, ticks, hist, flow, conn, discountApi>>

\* the rosters the backend answers with while the connection comes and goes
ConnRosters ==
    {FetchResponse("bad", <<>>), FetchResponse("list", <<N_carol>>)}

NextConn ==
    \/ \E k \in Inv : ConnectedEvent(k)
    \/ DisconnectedEvent
    \/ \E t \in 1..MaxConnects, k \in Inv : TimerFires(t, k)
    \/ \E k \in Inv, resp \in ConnRosters : RosterReturns(k, resp)
    \/ \E k \in Inv, ok \in BOOLEAN : JoinReturns(k, ok)
    \/ \E k \in Inv : SleepReturns(k)

SpecConn == Init /\ [][NextConn]_vars

----------------------------------------------------------------------------
(* The issuance flows, started at any time and answered in any order *)

StartPersonal(f, username) ==
    /\ flow[f].pc = "idle"
    /\ flow' = [flow EXCEPT ![f] = CreateDiscountForViewer(flow[f], username)]
    /\ UNCHANGED <<now, cooldowns, claimedDiscounts, lastGlobalDropAt,
                   joinedChannels, ownerName, inv, sync, ticks, hist, conn, discountApi>>

StartGlobal(f, code, percent) ==
    /\ flow[f].pc = "idle"
    /\ flow' = [flow EXCEPT ![f] = CreateGlobalDrop(flow[f], code, percent)]
    /\ UNCHANGED <<now, cooldowns, claimedDiscounts, lastGlobalDropAt,
                   joinedChannels, ownerName, inv, sync, ticks, hist, conn, discountApi>>

\* ruleResponse, ruleId and codeResponse keep what the API answered
PriceRuleReturns(f, resp, random) ==
    /\ flow[f].pc = "rule"
    /\ flow' = [flow EXCEPT ![f] =
                  [PriceRuleReturned(flow[f], resp, random) EXCEPT
                     !.ruleResponse = IF resp.kind = "throw" THEN "failed"
                                      ELSE "created",
                     !.ruleId = resp.id]]
    /\ UNCHANGED <<now, cooldowns, claimedDiscounts, lastGlobalDropAt,
                   joinedChannels, ownerName, inv, sync, ticks, hist, conn, discountApi>>

DiscountCodeReturns(f, resp) ==
    /\ flow[f].pc = "code"
    /\ flow' = [flow EXCEPT ![f] =
                  [DiscountCodeReturned(flow[f], resp) EXCEPT
                     !.codeResponse = IF resp.kind = "throw" THEN "failed"
                                      ELSE "created"]]
    /\ UNCHANGED <<now, cooldowns, claimedDiscounts, lastGlobalDropAt,
                   joinedChannels, ownerName, inv, sync, ticks, hist, conn, discountApi>>

NextIssuance ==
    \/ \E f \in Flows, username \in {N_alice, N_bob} : StartPersonal(f, username)
    \/ \E f \in Flows, percent \in {10, 50} : StartGlobal(f, G_code, percent)
    \/ \E f \in Flows, resp \in PriceRuleResponses, random \in Randoms :
          PriceRuleReturns(f, resp, random)
    \/ \E f \in Flows, resp \in DiscountCodeResponses :
          DiscountCodeReturns(f, resp)

SpecIssuance == Init /\ [][NextIssuance]_vars

----------------------------------------------------------------------------
(* The ledger alone: setCooldown and setUserDiscount called at any time, *)
(* with a clock that reaches the ends of the cooldowns and of the claim  *)
(* lifetime to the millisecond                                           *)

LedgerDeltas == {1, 999, 1000, 600000}

\* the calls made: (command, user, ms) and (channel, user, code)
LedgerCooldownCalls ==
    {<<"ping", "alice", COMMAND_COOLDOWNS.ping>>,
     <<"help", "bob", COMMAND_COOLDOWNS.help>>,
     <<"reload", "bob", DEFAULT_COOLDOWN_MS>>}
LedgerClaimCalls ==
    {<<"#bob", "alice", "DROP-A">>, <<"#bob", "alice", "DROP-B">>,
     <<"#alice", "alice", "DROP-A">>}

LedgerSetCooldown(command, userId, ms) ==
    /\ cooldowns' = SetCooldown(cooldowns, command, userId, ms, now)
    /\ hist' = [hist EXCEPT !.commit[command][userId] = [at |-> now, ms |-> ms]]
    /\ UNCHANGED <<now, claimedDiscounts, lastGlobalDropAt, joinedChannels,
                   ownerName, inv, sync, ticks, flow, conn, discountApi>>

LedgerSetUserDiscount(channel, userId, code) ==
    /\ claimedDiscounts' = SetUserDiscount(claimedDiscounts, channel, userId,
                                           code, now)
    /\ hist' = [hist EXCEPT !.claim[channel][userId] =
                                [code |-> code, at |-> now]]
    /\ UNCHANGED <<now, cooldowns, lastGlobalDropAt, joinedChannels,
                   ownerName, inv, sync, ticks, flow, conn, discountApi>>

LedgerTick(d) ==
    /\ ticks < MaxLedgerTicks
    /\ now' = now + d
    /\ ticks' = ticks + 1
    /\ UNCHANGED <<cooldowns, claimedDiscounts, lastGlobalDropAt,
                   joinedChannels, ownerName, inv, sync, hist, flow, conn, discountApi>>

NextLedger ==
    \/ \E call \in LedgerCooldownCalls :
          LedgerSetCooldown(call[1], call[2], call[3])
    \/ \E call \in LedgerClaimCalls :
          LedgerSetUserDiscount(call[1], call[2], call[3])
    \/ \E d \in LedgerDeltas : LedgerTick(d)

SpecLedger == Init /\ [][NextLedger]_vars

----------------------------------------------------------------------------
(* Properties *)

TypeOK ==
    /\ now \in Nat
    /\ ticks \in 0..MaxTicks
    /\ \A i \in Inv : inv[i].pc \in {"idle", "say", "request", "backend", "sync", "done"}
    /\ discountApi \in DiscountApis

\* the handler refused the request
RejectBranches == {"streamer_only", "usage", "not_allowed"}

\* the external issuance reported a failure
IssuanceFailed(r) == r.cmd \in {"discount", "drop"} /\ r.got \in {"false", "throw", "null", "undefined"}

\* the execution of the command failed
Failed(r) == r.raised \/ r.branch \in RejectBranches \/ IssuanceFailed(r)

\* C1: a failed command execution does not consume the cooldown: the
\* handling of a line whose execution failed (the handler raised, refused the
\* request, or the external issuance failed) writes no cooldown entry.
C1_FailureKeepsCooldown ==
    \A i \in Inv :
        inv[i].pc = "done" /\ Failed(inv[i]) => "cooldowns" \notin inv[i].wrote

\* C2: every step of the handling of a discount line leaves the cooldown map
\* and the claimed-discount map unchanged, except the step in which the
\* external issuance returns ok = true: that step sets the discount cooldown
\* of the user to now + 30 s and the claim of (channel, user) to a claim
\* created now, and changes nothing else of the two maps.
C2_CommitIffOk ==
    [][\A i \in Inv :
         inv'[i] # inv[i] /\ inv'[i].cmd = "discount" =>
           IF inv[i].pc = "request" /\ inv'[i].got = "true"
           THEN /\ cooldowns' = [cooldowns EXCEPT
                                  !["discount"][inv[i].user] = now + 30000]
                /\ claimedDiscounts'[inv[i].channel][inv[i].user].createdAt = now
                /\ claimedDiscounts'[inv[i].channel][inv[i].user].code \in Codes
                /\ \A c \in Channels, u \in Users :
                      <<c, u>> # <<inv[i].channel, inv[i].user>> =>
                        claimedDiscounts'[c][u] = claimedDiscounts[c][u]
           ELSE UNCHANGED <<cooldowns, claimedDiscounts, discountApi>>]_vars

C2_Witness ==
    \E i, j \in Inv :
        /\ inv[i].cmd = "discount" /\ inv[i].got = "true" /\ inv[i].pc = "done"
        /\ {"cooldowns", "claimedDiscounts"} \subseteq inv[i].wrote
        /\ inv[j].cmd = "discount" /\ inv[j].got = "false" /\ inv[j].pc = "done"
        /\ inv[j].wrote = {}

\* C3: a discount line of a user who sent a discount line in the same channel
\* less than 30 s earlier, the earlier one being over with a code reply, makes
\* no external request and changes no ledger state, and its reply is a wait
\* message naming between 1 and 30 seconds.
C3_SecondDiscountWaits ==
    \A j \in Inv :
        inv[j].recent =>
          /\ inv[j].ext = 0 /\ inv[j].wrote = {}
          /\ inv[j].branch = "discount_wait"
          /\ inv[j].pc = "say" /\ ~inv[j].raised =>
                /\ inv[j].pending.kind = "discount_wait"
                /\ inv[j].pending.n \in 1..30
          /\ inv[j].pc = "done" /\ ~inv[j].raised =>
                /\ Len(inv[j].replies) = 1
                /\ inv[j].replies[1].kind = "discount_wait"
                /\ inv[j].replies[1].n \in 1..30

C3_Witness ==
    \E j \in Inv :
        /\ inv[j].recent /\ inv[j].pc = "done" /\ ~inv[j].raised
        /\ inv[j].replies = <<Reply("discount_wait", 30)>>

\* C4: a line with a command other than discount whose (command, user) is on
\* cooldown when it is dispatched gets a wait-time reply and nothing else:
\* no handler runs, no external call and no sync is made, no ledger state
\* changes.
C4_CooldownGate ==
    \A i \in Inv :
        inv[i].onCooldown /\ inv[i].cmd # "discount" =>
          /\ inv[i].runs = 0 /\ inv[i].ext = 0 /\ inv[i].syncRuns = 0
          /\ inv[i].wrote = {}
          /\ \/ /\ inv[i].pc = "say"
                /\ inv[i].pending.kind = "wait" /\ inv[i].pending.n > 0
                /\ inv[i].replies = <<>>
             \/ /\ inv[i].pc = "done" /\ inv[i].escaped
                /\ inv[i].replies = <<>>
             \/ /\ inv[i].pc = "done" /\ ~inv[i].escaped
                /\ Len(inv[i].replies) = 1
                /\ inv[i].replies[1].kind = "wait" /\ inv[i].replies[1].n > 0

C4_Witness ==
    \E i \in Inv :
        /\ inv[i].onCooldown /\ inv[i].cmd = "drop" /\ inv[i].pc = "done"
        /\ Len(inv[i].replies) = 1 /\ inv[i].replies[1].kind = "wait"

\* C5 as stated: at most one handler runs and at most one reply is sent for
\* a line.
C5_OneReply ==
    \A i \in Inv : inv[i].runs <= 1 /\ Len(inv[i].replies) <= 1

\* C5, amended: at most one handler runs for a line; at most one reply is
\* sent for a line that is ignored, on cooldown, or a ping or help, and at
\* most two for a discount, drop or reload line (a progress reply, then one
\* final or failure reply).
C5_OneHandlerTwoReplies ==
    \A i \in Inv :
        /\ inv[i].runs <= 1
        /\ Len(inv[i].replies)
             <= (IF inv[i].cmd \in {"discount", "drop", "reload"} /\ inv[i].runs = 1
                 THEN 2 ELSE 1)

C5_Witness ==
    \E i \in Inv :
        /\ inv[i].pc = "done" /\ inv[i].runs = 1
        /\ inv[i].replies = <<Reply("generating", 0), Reply("code", 0)>>

\* the generic failure replies sent for a line
FailureReplies(r) == {k \in 1..Len(r.replies) : r.replies[k].kind = "failed"}

\* C6: when a handler raises, exactly one generic failure reply is sent and
\* no exception leaves the message handler.
C6_RaiseIsContained ==
    \A i \in Inv :
        inv[i].pc = "done" /\ inv[i].raised =>
          ~inv[i].escaped /\ Cardinality(FailureReplies(inv[i])) = 1

\* C7: the handling of a line in which something raised changed no ledger
\* state.
C7_RaiseKeepsLedger ==
    \A i \in Inv : inv[i].raised => inv[i].wrote = {}

\* C8: a line without the prefix, with nothing after the prefix, or whose
\* first token is no registered command gets no reply, runs no handler,
\* makes no external call and changes no ledger state.
C8_IgnoredLines ==
    \A i \in Inv :
        inv[i].line \in {"noprefix", "empty", "unregistered"} =>
          /\ inv[i].replies = <<>>
          /\ inv[i].runs = 0 /\ inv[i].ext = 0 /\ inv[i].syncRuns = 0
          /\ inv[i].wrote = {}

\* C9: a drop line of a user without the broadcaster badge makes no external
\* request and does not change lastGlobalDropAt; a reload line of a user who
\* is not the configured owner, or with no owner configured, runs no channel
\* sync and joins no channel.
C9_Authorization ==
    \A i \in Inv :
        /\ inv[i].cmd = "drop" /\ ~Broadcaster(inv[i].channel, inv[i].user) =>
              /\ inv[i].ext = 0
              /\ "lastGlobalDropAt" \notin inv[i].wrote
        /\ inv[i].cmd = "reload" /\ (ownerName = "" \/ inv[i].user # ownerName) =>
              /\ inv[i].syncRuns = 0
              /\ sync[i] = IdleSync

C9_Witness ==
    \E i, j \in Inv :
        /\ inv[i].cmd = "drop" /\ ~Broadcaster(inv[i].channel, inv[i].user)
        /\ inv[i].pc = "done" /\ inv[i].replies = <<Reply("streamer_only", 0)>>
        /\ inv[j].cmd = "reload" /\ ownerName = "" /\ inv[j].user = "bob"
        /\ inv[j].pc = "done" /\ inv[j].replies = <<Reply("not_allowed", 0)>>

\* C10: a drop line whose percent argument is missing, not a number, below 1
\* or above 50 makes no external call and does not change lastGlobalDropAt,
\* and every external global-drop request carries an integer percent in
\* 1..50.
C10_PercentValidated ==
    \A i \in Inv :
        inv[i].cmd = "drop" =>
          /\ inv[i].arg \in {"missing", "nonnumeric", "low", "high"} =>
                inv[i].ext = 0 /\ "lastGlobalDropAt" \notin inv[i].wrote
          /\ inv[i].ext > 0 =>
                ~inv[i].extPercent.nan /\ inv[i].extPercent.val \in 1..50

\* the replies that tell the sender to wait
CooldownReplies == {"wait", "drop_cooldown"}

\* C11: the gate of the global drop is one for the whole process.  A drop
\* line of a streamer, in any channel, that is dispatched less than 5 minutes
\* after a global drop was issued makes no external call and does not write
\* lastGlobalDropAt, and the reply made for it is a cooldown reply naming
\* between 1 and 300 seconds; lastGlobalDropAt is the time of the latest
\* issuance that returned ok = true with a drop, and only a line whose
\* issuance returned ok = true has written it.
C11_GlobalDropGate ==
    /\ lastGlobalDropAt = hist.issued
    /\ \A i \in Inv :
          /\ "lastGlobalDropAt" \in inv[i].wrote =>
                inv[i].cmd = "drop" /\ inv[i].got = "true"
          /\ inv[i].gated /\ Broadcaster(inv[i].channel, inv[i].user) =>
                /\ inv[i].ext = 0
                /\ "lastGlobalDropAt" \notin inv[i].wrote
                /\ \/ inv[i].onCooldown /\ inv[i].runs = 0
                   \/ inv[i].branch = "drop_cooldown"
                /\ inv[i].pc = "say" /\ ~inv[i].raised =>
                      /\ inv[i].pending.kind \in CooldownReplies
                      /\ inv[i].pending.n \in 1..300
                      /\ inv[i].replies = <<>>
                /\ inv[i].pc = "done" /\ ~inv[i].raised /\ ~inv[i].escaped =>
                      /\ Len(inv[i].replies) = 1
                      /\ inv[i].replies[1].kind \in CooldownReplies
                      /\ inv[i].replies[1].n \in 1..300

C11_Witness ==
    \E i, j \in Inv :
        /\ inv[i].cmd = "drop" /\ inv[i].got = "true"
        /\ "lastGlobalDropAt" \in inv[i].wrote
        /\ inv[j].gated /\ Broadcaster(inv[j].channel, inv[j].user)
        /\ inv[j].channel # inv[i].channel /\ inv[j].user # inv[i].user
        /\ inv[j].pc = "done"
        /\ inv[j].replies = <<Reply("drop_cooldown", 300)>>

\* C20: any two issued global drops are at least 5 minutes apart: a step
\* that issues a drop does so at least 5 minutes after the previous issuance,
\* a step that writes lastGlobalDropAt raises it by at least 5 minutes, and
\* no external drop request starts less than 5 minutes after an issuance.
C20_DropsFiveMinutesApart ==
    [][/\ hist.issued' # hist.issued /\ hist.issued # 0 =>
             hist.issued' >= hist.issued + 300000
       /\ lastGlobalDropAt' # lastGlobalDropAt /\ hist.issued # 0 =>
             lastGlobalDropAt' >= lastGlobalDropAt + 300000
       /\ \A i \in Inv :
             inv'[i].cmd = "drop" /\ inv'[i].ext > inv[i].ext =>
               ~DropIssuedRecently]_vars

\* the line went past the cooldown check of its command
PassedCheck(r) == r.runs = 1 /\ r.branch # "discount_wait"

\* C17: nothing but a committed cooldown holds a line back.  A line of a
\* registered command goes past the cooldown check exactly when, at its
\* dispatch, no cooldown committed for its command and user is running; an
\* earlier line of the same command and user that has not committed yet
\* does not hold it back, so both go on (two discount lines of one user both
\* request a code and both commit).
C17_OnlyCommitsHoldBack ==
    \A j \in Inv :
        inv[j].cmd \in CommandNames => (PassedCheck(inv[j]) <=> ~inv[j].blocked)

C17_Witness ==
    \E i, j \in Inv :
        /\ i # j
        /\ inv[i].cmd = "discount" /\ inv[j].cmd = "discount"
        /\ inv[i].user = inv[j].user /\ inv[i].channel = inv[j].channel
        /\ inv[i].at = inv[j].at
        /\ \A k \in {i, j} :
              /\ inv[k].pc = "done" /\ inv[k].ext = 1 /\ inv[k].got = "true"
              /\ inv[k].wrote = {"cooldowns", "claimedDiscounts"}
              /\ inv[k].replies = <<Reply("generating", 0), Reply("code", 0)>>

\* C18: the step in which the handler of a command other than discount
\* returns without raising sets the cooldown of that command and user to
\* now + the command's duration (ping 1 s, help 2 s, drop 5 min, reload 10 s),
\* whatever the entry was before, and changes no other entry; no other step
\* of such a line, and no step of the dispatcher for a discount line,
\* changes the cooldown map.
C18_DispatcherCommit ==
    [][\A i \in Inv :
         inv'[i] # inv[i] =>
           IF /\ inv[i].pc = "say" /\ inv[i].cont = "return"
              /\ inv'[i].pc = "done" /\ inv[i].cmd # "discount"
           THEN cooldowns' = [cooldowns EXCEPT ![inv[i].cmd][inv[i].user] =
                                now + SaidDuration[inv[i].cmd]]
           ELSE inv'[i].cmd # "discount" \/ inv[i].pc \in {"idle", "say"} =>
                  UNCHANGED cooldowns]_vars

\* two ping lines of one user were both dispatched before either committed:
\* the second commit overwrites the entry of the first, which is running
C18_Witness ==
    \E i, j \in Inv :
        /\ i # j /\ inv[i].user = inv[j].user
        /\ \A k \in {i, j} :
              /\ inv[k].cmd = "ping" /\ inv[k].pc = "done"
              /\ inv[k].replies = <<Reply("pong", 0)>>
              /\ "cooldowns" \in inv[k].wrote
        /\ hist.commit["ping"][inv[i].user].at = now
        /\ cooldowns["ping"][inv[i].user] = now + 1000

\* C12: for every command and user, the remaining cooldown read now is 0 if
\* setCooldown was never called for the pair or the expiry of its latest
\* call (its time + its duration) is not after now, and otherwise the least
\* number of whole seconds that covers expiry - now, which is positive; it
\* is never negative.
C12_RemainingCooldown ==
    \A c \in CommandNames, u \in Users :
        LET remaining == IsOnCooldown(cooldowns, c, u, now)
            call == hist.commit[c][u]
            expiry == call.at + call.ms
        IN /\ remaining \in Nat
           /\ call = NoCommit => remaining = 0
           /\ call # NoCommit /\ now >= expiry => remaining = 0
           /\ call # NoCommit /\ now < expiry =>
                 /\ remaining > 0
                 /\ (remaining - 1) * 1000 < expiry - now
                 /\ expiry - now <= remaining * 1000

\* one ms before the expiry of one pair, at the expiry of another, right
\* after setCooldown for a third
C12_Witness ==
    /\ hist.commit["help"]["bob"] = [at |-> now - 1999, ms |-> 2000]
    /\ IsOnCooldown(cooldowns, "help", "bob", now) = 1
    /\ hist.commit["ping"]["alice"] = [at |-> now - 1000, ms |-> 1000]
    /\ IsOnCooldown(cooldowns, "ping", "alice", now) = 0
    /\ hist.commit["reload"]["bob"] = [at |-> now, ms |-> 10000]
    /\ IsOnCooldown(cooldowns, "reload", "bob", now) = 10

\* C13: for every channel and user, the claim read now is the one of the
\* latest setUserDiscount call for the pair (its code and its time) when
\* there was such a call and it was made at most 10 minutes ago, and none
\* otherwise; a call for one pair leaves the claims of the other pairs as
\* they were.
C13_ActiveClaim ==
    /\ \A ch \in Channels, u \in Users :
          LET got == GetUserDiscount(claimedDiscounts, ch, u, now)
              call == hist.claim[ch][u]
          IN IF call # NoRecord /\ now - call.at <= 600000
             THEN got = [code |-> call.code, createdAt |-> call.at]
             ELSE got = NoClaim
    /\ \A ch \in Channels, u \in Users :
          claimedDiscounts[ch][u] # NoClaim => hist.claim[ch][u] # NoRecord

\* a claim that was overwritten is read at the last instant of its lifetime,
\* another is read one ms later, a third pair has none
C13_Witness ==
    /\ hist.claim["#bob"]["alice"] = [code |-> "DROP-B", at |-> now - 600000]
    /\ GetUserDiscount(claimedDiscounts, "#bob", "alice", now)
          = [code |-> "DROP-B", createdAt |-> now - 600000]
    /\ hist.claim["#alice"]["alice"] = [code |-> "DROP-A", at |-> now - 600001]
    /\ GetUserDiscount(claimedDiscounts, "#alice", "alice", now) = NoClaim
    /\ GetUserDiscount(claimedDiscounts, "#bob", "bob", now) = NoClaim

\* C14: in the personal and in the global flow the first request creates a
\* price rule; a discount code request is made only when the price rule
\* request was answered with success, it is the second and last request and
\* it names the id that answer gave; a flow whose price rule or discount
\* code request failed has failed without a result, and has made no request
\* after the failed one: none that deletes the price rule, none at all.
C14_TwoStepIssuance ==
    \A f \in Flows :
        LET fl == flow[f]
            n == Len(fl.requests)
        IN /\ fl.pc # "idle" => n >= 1 /\ fl.requests[1].op = "price_rule"
           /\ n <= 2
           /\ n = 2 => /\ fl.requests[2].op = "discount_code"
                       /\ fl.ruleResponse = "created"
                       /\ fl.requests[2].rule = fl.ruleId
           /\ fl.ruleResponse = "failed" =>
                 fl.pc = "failed" /\ fl.result = NoResult /\ n = 1
           /\ fl.codeResponse = "failed" =>
                 fl.pc = "failed" /\ fl.result = NoResult /\ n = 2

\* a personal flow whose code request failed after its rule was created, and
\* a global flow whose price rule request failed
C14_Witness ==
    \E f, g \in Flows :
        /\ flow[f].kind = "personal" /\ flow[f].pc = "failed"
        /\ flow[f].ruleResponse = "created" /\ flow[f].ruleId = 101
        /\ flow[f].codeResponse = "failed"
        /\ flow[f].requests[2].rule = 101
        /\ flow[g].kind = "global" /\ flow[g].pc = "failed"
        /\ flow[g].ruleResponse = "failed"

\* the channels of a sequence
Range(q) == {q[k] : k \in 1..Len(q)}

\* C15: a sync run that is over has, for every channel of its roster,
\* either called join for it or found it in the joined set, whether or not
\* joins of the run failed; the joined set is the static channels and the
\* channels for which a join succeeded, so a channel whose join failed is
\* not in it until a later join of it succeeds.
C15_JoinFailureDoesNotStop ==
    /\ joinedChannels = StaticChannels \cup hist.joinedOk
    /\ \A k \in Inv :
          /\ sync[k].pc = "done" =>
                \A ch \in Range(sync[k].list) :
                    ch \in joinedChannels \/ ch \in Range(sync[k].joins)
          /\ sync[k].pc \in {"join", "sleep"} =>
                /\ sync[k].joins # <<>>
                /\ sync[k].joins[Len(sync[k].joins)] = sync[k].list[sync[k].idx]
                /\ \A p \in 1..(sync[k].idx - 1) :
                      \/ sync[k].list[p] \in joinedChannels
                      \/ sync[k].list[p] \in Range(sync[k].joins)

\* a run is over that called join for carol, which failed, and then for
\* dave, which succeeded; another run calls join for carol again
C15_Witness ==
    \E k, l \in Inv :
        /\ sync[k].pc = "done" /\ sync[k].joins = <<N_carol, N_dave>>
        /\ N_dave \in joinedChannels /\ N_carol \notin joinedChannels
        /\ sync[l].pc = "join" /\ sync[l].joins = <<N_carol>>

\* C19: over all interleavings of sync runs, a step in which a run calls
\* join does so for a channel that is not a static channel and for which
\* no join has succeeded so far.
C19_NoDuplicateJoin ==
    [][\A k \in Inv :
         Len(sync'[k].joins) > Len(sync[k].joins) =>
           LET ch == sync'[k].joins[Len(sync'[k].joins)]
           IN ch \notin StaticChannels /\ ch \notin hist.joinedOk]_vars

\* two runs are over, both with a roster that names carol, dave and a static
\* channel; join was called for dave by one run only, and for carol by both
\* (the first call failed)
C19_Witness ==
    /\ \A k \in Inv : sync[k].pc = "done" /\ Len(sync[k].list) >= 3
    /\ {N_carol, N_dave} \subseteq hist.joinedOk
    /\ \E k, l \in Inv :
          /\ k # l
          /\ sync[k].joins = <<N_carol, N_dave>>
          /\ sync[l].joins = <<N_carol>>

C21_OneTimer ==
    /\ Cardinality(conn.timers) <= 1
    /\ \A t \in conn.timers : t = conn.autoJoinInterval

\* two connected handlers waited for their initial sync at the same time
\* and both went on: the second cleared the timer of the first
C21_Witness ==
    /\ conn.overlap /\ conn.connects = 2 /\ conn.sets = 2
    /\ \A k \in Inv : conn.handlers[k] = "done"
    /\ conn.timers = {2}

\* C22: while the client is disconnected (a disconnected event was handled
\* and no connected event came since) no polling timer is active.
C22_NoTimerWhileDisconnected ==
    ~conn.connected => conn.timers = {}

\* the replies the discount handler ends with
DiscountReplies ==
    {"code", "bad_response", "plan_limit", "disabled", "not_connected",
     "backend_cooldown", "already_claimed", "already_redeemed",
     "not_registered", "went_wrong"}

\* C23: the viewer-discount request never raises: a transport failure gives
\* ok = false with reason network_error, a body that is no JSON object gives
\* ok = false with reason not_found on status 404 and http_error otherwise,
\* a JSON object is returned as the result on any status, and the discount
\* handler answers every outcome with a chat reply of its own, no error
\* leaving it.
C23_RequestNeverRaises ==
    \A i \in Inv :
        inv[i].outcome # "" =>
          /\ inv[i].got # "throw"
          /\ inv[i].outcome = "transport" =>
                inv[i].got = "false" /\ inv[i].reason = "network_error"
          /\ inv[i].outcome = "other_404" =>
                inv[i].got = "false" /\ inv[i].reason = "not_found"
          /\ inv[i].outcome = "other" =>
                inv[i].got = "false" /\ inv[i].reason = "http_error"
          /\ inv[i].outcome = "json_object" =>
                inv[i].got \in {"true", "false", "undefined"}
          /\ inv[i].branch \in DiscountReplies
          /\ inv[i].pc = "say" /\ inv[i].cont = "return" =>
                inv[i].pending.kind = inv[i].branch /\ ~inv[i].raised

====
